---------------------------- MODULE Spec2Model ----------------------------
(***************************************************************************)
(* A model of RustJVM: the byte reader (src/src/bytes.rs), the class-file  *)
(* parser and constant pool (src/src/class.rs) and the bytecode            *)
(* interpreter (src/src/interpreter.rs).                                   *)
(*                                                                         *)
(* Conventions.                                                            *)
(*  - A byte is an integer 0..255, a byte source a sequence of bytes, and  *)
(*    a cursor position the number of bytes already consumed.              *)
(*  - Text (a Rust String) is the sequence of its UTF-8 bytes.             *)
(*  - A fallible operation yields [status, value, pos]: status "Ok" is the *)
(*    Rust Ok(value), "Err" a returned io::Error, "Panic" an abort of the  *)
(*    process (panic!, todo!, expect, unwrap, arithmetic overflow); pos is *)
(*    the cursor position the operation leaves behind.                     *)
(*  - The byte source behaves like std::io::Cursor or a regular file: one  *)
(*    read() call hands out min(requested, remaining) bytes.               *)
(*  - The diagnostic println!/eprintln! lines of the parser are not part   *)
(*    of the model; the interpreter's output is.                           *)
(***************************************************************************)
EXTENDS Integers, Sequences, FiniteSets, TLC

VARIABLES
    f,                \* the byte source a parser reads (class.rs: f)
    position,         \* cursor position in f or in byte_code
    constant_pool,    \* sequence of ConstantPoolInfo, stored 0-indexed in Rust
    byte_code,        \* the entry point's code vector (interpreter.rs:39)
    operand_stack,    \* interpreter.rs:42
    stdout,           \* the lines run_main has printed
    class_file,       \* the ClassFile fields ClassFile::parse has read so far
    result,           \* outcome of the last operation
    dispatched,       \* history: <<position, instruction>> of every dispatch of run_main
    overflow_checks,  \* TRUE: debug build (usize underflow panics); FALSE: release (wraps)
    pc                \* where the program is

vars == <<f, position, constant_pool, byte_code, operand_stack, stdout,
          class_file, result, dispatched, overflow_checks, pc>>

\* the interpreter's own variables
interpVars == <<byte_code, operand_stack, stdout, dispatched>>

-----------------------------------------------------------------------------
(* Bounds of the model *)

\* longest byte source handed to the byte reader on its own
MaxSrcLen == 9
\* largest length argument tried for parse_n_bytes and parse_utf8
MaxReq == 3

-----------------------------------------------------------------------------
(* Generic helpers *)

Min(a, b) == IF a < b THEN a ELSE b

RECURSIVE Concat(_)
Concat(ss) == IF ss = <<>> THEN <<>> ELSE Head(ss) \o Concat(Tail(ss))

Ok(v, p) == [status |-> "Ok", value |-> v, pos |-> p]

Err(m, p) == [status |-> "Err", value |-> m, pos |-> p]

Panic(m, p) == [status |-> "Panic", value |-> m, pos |-> p]

NoResult == [op |-> "none"]

\* usize::MAX stands in for every length no byte source of the model can hold
UsizeHuge == 2147483647

-----------------------------------------------------------------------------
(* Byte Reader: src/src/bytes.rs *)

\* the bytes a source still holds past position p
Remaining(s, p) == IF p >= Len(s) THEN 0 ELSE Len(s) - p

\* One call of Read::read(&mut buf) with a zero-initialised buffer of n bytes:
\* r is the number of bytes obtained, buf the buffer afterwards.
Read(s, p, n) ==
    LET r == Min(n, Remaining(s, p))
    IN  [r   |-> r,
         buf |-> [i \in 1..n |-> IF i <= r THEN s[p + i] ELSE 0],
         pos |-> p + r]

\* u16::from_be_bytes
U16(buf) == buf[1] * 256 + buf[2]

\* u32::from_be_bytes; a u32 does not fit TLC's 32-bit integers, so it is
\* kept as its two 16-bit halves
U32(buf) == [hi |-> buf[1] * 256 + buf[2], lo |-> buf[3] * 256 + buf[4]]

\* i32::from_be_bytes (two's complement)
I32(buf) ==
    LET hi == buf[1] * 256 + buf[2]
        lo == buf[3] * 256 + buf[4]
    IN  IF hi >= 32768 THEN (hi - 65536) * 65536 + lo ELSE hi * 65536 + lo

\* `x as usize` of a u32
AsUsize(u) == IF u.hi >= 32768 THEN UsizeHuge ELSE u.hi * 65536 + u.lo

\* String::from_utf8's validity check (the Unicode well-formed byte sequences)
RECURSIVE IsValidUtf8(_)
IsValidUtf8(b) ==
    LET n       == Len(b)
        Cont(i) == i <= n /\ b[i] >= 128 /\ b[i] <= 191
        In(i, lo, hi) == i <= n /\ b[i] >= lo /\ b[i] <= hi
        Rest(k) == IsValidUtf8(SubSeq(b, k + 1, n))
    IN  IF n = 0 THEN TRUE
        ELSE IF b[1] <= 127 THEN Rest(1)
        ELSE IF b[1] >= 194 /\ b[1] <= 223 THEN Cont(2) /\ Rest(2)
        ELSE IF b[1] = 224 THEN In(2, 160, 191) /\ Cont(3) /\ Rest(3)
        ELSE IF b[1] = 237 THEN In(2, 128, 159) /\ Cont(3) /\ Rest(3)
        ELSE IF b[1] >= 225 /\ b[1] <= 239 THEN Cont(2) /\ Cont(3) /\ Rest(3)
        ELSE IF b[1] = 240 THEN In(2, 144, 191) /\ Cont(3) /\ Cont(4) /\ Rest(4)
        ELSE IF b[1] >= 241 /\ b[1] <= 243 THEN Cont(2) /\ Cont(3) /\ Cont(4) /\ Rest(4)
        ELSE IF b[1] = 244 THEN In(2, 128, 143) /\ Cont(3) /\ Cont(4) /\ Rest(4)
        ELSE FALSE

parse_u1_as_bytes(s, p) == LET rd == Read(s, p, 1) IN Ok(rd.buf, rd.pos)

parse_u2_as_bytes(s, p) == LET rd == Read(s, p, 2) IN Ok(rd.buf, rd.pos)

parse_u4_as_bytes(s, p) == LET rd == Read(s, p, 4) IN Ok(rd.buf, rd.pos)

\* the buffer of a short read is dropped with the error, so it is not built
parse_n_bytes(s, p, n) ==
    LET r == Min(n, Remaining(s, p))
    IN  IF r < n
        THEN Err("Expected more bytes than were read", p + r)
        ELSE LET rd == Read(s, p, n) IN Ok(rd.buf, rd.pos)

parse_u1(s, p) == LET rd == Read(s, p, 1) IN Ok(rd.buf[1], rd.pos)

parse_u2(s, p) == LET rd == Read(s, p, 2) IN Ok(U16(rd.buf), rd.pos)

parse_u4(s, p) == LET rd == Read(s, p, 4) IN Ok(U32(rd.buf), rd.pos)

\* the f32 is kept as its bit pattern
parse_u4_as_f32(s, p) == LET rd == Read(s, p, 4) IN Ok(U32(rd.buf), rd.pos)

parse_u4_as_i32(s, p) == LET rd == Read(s, p, 4) IN Ok(I32(rd.buf), rd.pos)

\* the f64 is kept as its eight big-endian bytes
parse_u8_as_f64(s, p) == LET rd == Read(s, p, 8) IN Ok(rd.buf, rd.pos)

\* the i64 is kept as its eight big-endian bytes (two's complement)
parse_u8_as_i64(s, p) == LET rd == Read(s, p, 8) IN Ok(rd.buf, rd.pos)

parse_utf8(s, p, len) ==
    LET rd == Read(s, p, len)
    IN  IF IsValidUtf8(rd.buf)
        THEN Ok(rd.buf, rd.pos)
        ELSE Panic("Could not parse Utf-8", rd.pos)

-----------------------------------------------------------------------------
(* The byte reader driven on its own: any operation, any number of times,  *)
(* on a cursor over a bounded source.                                      *)

\* byte streams whose windows are the sources: ASCII, a two-byte UTF-8
\* character (C3 A9), a stray continuation byte, zeros and 0xFF
BaseStreams ==
    { <<202, 254, 186, 190, 0, 0, 0, 52, 0, 3, 1, 0>>,
      <<72, 105, 195, 169, 33, 169, 0, 1, 255, 127, 128, 7>> }

Windows(b, maxlen) ==
    { SubSeq(b, w[1], w[1] + w[2] - 1) :
        w \in { v \in (1..Len(b)) \X (0..maxlen) : v[1] + v[2] - 1 <= Len(b) } }

Sources == UNION { Windows(b, MaxSrcLen) : b \in BaseStreams }

\* values of the variables a specification does not use
IdleClassFile == [stage |-> "none"]

ReaderInit ==
    /\ f \in Sources
    /\ position = 0
    /\ constant_pool = <<>>
    /\ byte_code = <<>>
    /\ operand_stack = <<>>
    /\ stdout = <<>>
    /\ dispatched = <<>>
    /\ class_file = IdleClassFile
    /\ result = NoResult
    /\ overflow_checks = FALSE
    /\ pc = "reader"

\* result records the operation, the number of bytes it asked for, where the
\* cursor stood and what came back
ReaderStep(op, n, r) ==
    /\ pc = "reader"
    /\ result' = [op |-> op, requested |-> n, from |-> position, r |-> r]
    /\ position' = r.pos
    /\ UNCHANGED <<f, constant_pool, interpVars, class_file, overflow_checks, pc>>

DoParseU1Bytes == ReaderStep("parse_u1_as_bytes", 1, parse_u1_as_bytes(f, position))

DoParseU2Bytes == ReaderStep("parse_u2_as_bytes", 2, parse_u2_as_bytes(f, position))

DoParseU4Bytes == ReaderStep("parse_u4_as_bytes", 4, parse_u4_as_bytes(f, position))

DoParseNBytes == \E n \in 0..MaxReq : ReaderStep("parse_n_bytes", n, parse_n_bytes(f, position, n))

DoParseU1 == ReaderStep("parse_u1", 1, parse_u1(f, position))

DoParseU2 == ReaderStep("parse_u2", 2, parse_u2(f, position))

DoParseU4 == ReaderStep("parse_u4", 4, parse_u4(f, position))

DoParseF32 == ReaderStep("parse_u4_as_f32", 4, parse_u4_as_f32(f, position))

DoParseI32 == ReaderStep("parse_u4_as_i32", 4, parse_u4_as_i32(f, position))

DoParseF64 == ReaderStep("parse_u8_as_f64", 8, parse_u8_as_f64(f, position))

DoParseI64 == ReaderStep("parse_u8_as_i64", 8, parse_u8_as_i64(f, position))

DoParseUtf8 == \E n \in 0..MaxReq : ReaderStep("parse_utf8", n, parse_utf8(f, position, n))

ReaderNext ==
    \/ DoParseU1Bytes
    \/ DoParseU2Bytes
    \/ DoParseU4Bytes
    \/ DoParseNBytes
    \/ DoParseU1
    \/ DoParseU2
    \/ DoParseU4
    \/ DoParseF32
    \/ DoParseI32
    \/ DoParseF64
    \/ DoParseI64
    \/ DoParseUtf8

SpecBytes == ReaderInit /\ [][ReaderNext]_vars

\* the bytes an operation took from the source
Taken == SubSeq(f, result.from + 1, result.r.pos)

\* C2: every byte reader operation that asks for N bytes either returns a
\* value built from exactly N bytes of the source or fails; it never returns
\* success after a short read.
C2_ReadIsAllOrFailure ==
    (pc = "reader" /\ result.op # "none" /\ result.r.status = "Ok")
        => Len(Taken) = result.requested

\* what the code does guarantee: parse_n_bytes alone checks the count
ParseNBytesIsAllOrFailure ==
    (pc = "reader" /\ result.op = "parse_n_bytes" /\ result.r.status = "Ok")
        => (Len(Taken) = result.requested /\ result.r.value = Taken)

-----------------------------------------------------------------------------
(* Constant pool entries: src/src/class.rs, enum ConstantPoolInfo *)

Class(n) == [kind |-> "Class", name_index |-> n]

Fieldref(c, nt) == [kind |-> "Fieldref", class_index |-> c, name_and_type_index |-> nt]

Methodref(c, nt) == [kind |-> "Methodref", class_index |-> c, name_and_type_index |-> nt]

InterfaceMethodref(c, nt) ==
    [kind |-> "InterfaceMethodref", class_index |-> c, name_and_type_index |-> nt]

String(s) == [kind |-> "String", string_index |-> s]

Integer(v) == [kind |-> "Integer", value |-> v]

Float(v) == [kind |-> "Float", value |-> v]

Long(v) == [kind |-> "Long", value |-> v]

Double(v) == [kind |-> "Double", value |-> v]

NameAndType(n, d) == [kind |-> "NameAndType", name_index |-> n, descriptor_index |-> d]

Utf8(v) == [kind |-> "Utf8", value |-> v]

MethodHandle(k, i) == [kind |-> "MethodHandle", reference_kind |-> k, reference_index |-> i]

MethodType(d) == [kind |-> "MethodType", descriptor_index |-> d]

InvokeDynamic(b, nt) ==
    [kind |-> "InvokeDynamic", bootstrap_method_attr_index |-> b, name_and_type_index |-> nt]

-----------------------------------------------------------------------------
(* Constant pool accessors: src/src/class.rs, impl ConstantPool for Vec *)

\* outcomes of an accessor: a reference to an entry or a text, Err(()), or a panic
Found(v) == [status |-> "Ok", value |-> v]

Mismatch == [status |-> "Err", value |-> "()"]

Abort(m) == [status |-> "Panic", value |-> m]

IllegalIndex == "Illegal index into constant pool!"

SubtractOverflow == "attempt to subtract with overflow"

\* Vec::get(k) on the 0-indexed vector v: Some(element) or None
VecGet(v, k) ==
    IF k >= 0 /\ k < Len(v) THEN [some |-> TRUE, elem |-> v[k + 1]]
                            ELSE [some |-> FALSE]

\* get_value without the shift from 1-based to 0-based
get_value_zero_based(pool, index) ==
    LET val == VecGet(pool, index)
    IN  IF val.some THEN Found(val.elem) ELSE Abort(IllegalIndex)

\* self.get(index as usize - 1).expect(..): the subtraction panics in a build
\* with overflow checks and wraps to usize::MAX in one without
get_value(pool, index) ==
    IF index = 0 /\ overflow_checks
    THEN Abort(SubtractOverflow)
    ELSE LET k   == IF index = 0 THEN UsizeHuge ELSE index - 1
             val == VecGet(pool, k)
         IN  IF val.some THEN Found(val.elem) ELSE Abort(IllegalIndex)

\* get_class_name_from_index looking for the name at the entry's own index
\* instead of at its name_index
get_class_name_same_index(pool, index) ==
    LET class == get_value(pool, index)
    IN  IF class.status # "Ok" THEN class
        ELSE IF class.value.kind # "Class" THEN Mismatch
        ELSE LET name == get_value(pool, index)
             IN  IF name.status # "Ok" THEN name
                 ELSE IF name.value.kind # "Utf8" THEN Mismatch
                 ELSE Found(name.value.value)

get_class_name_from_index(pool, index) ==
    LET class == get_value(pool, index)
    IN  IF class.status # "Ok" THEN class
        ELSE IF class.value.kind # "Class" THEN Mismatch
        ELSE LET name == get_value(pool, class.value.name_index)
             IN  IF name.status # "Ok" THEN name
                 ELSE IF name.value.kind # "Utf8" THEN Mismatch
                 ELSE Found(name.value.value)

get_utf8_from_index(pool, index) ==
    LET utf8 == get_value(pool, index)
    IN  IF utf8.status # "Ok" THEN utf8
        ELSE IF utf8.value.kind # "Utf8" THEN Mismatch
        ELSE Found(utf8.value.value)

\* The accessor the interpreter calls; its body is not in class.rs. From the
\* specification: the index must reference a NameAndType entry, and both of
\* its indices must resolve to Utf8; the result is the pair (name, descriptor).
get_name_and_type(pool, index) ==
    LET nt == get_value(pool, index)
    IN  IF nt.status # "Ok" THEN nt
        ELSE IF nt.value.kind # "NameAndType" THEN Mismatch
        ELSE LET name == get_utf8_from_index(pool, nt.value.name_index)
                 desc == get_utf8_from_index(pool, nt.value.descriptor_index)
             IN  IF name.status # "Ok" THEN name
                 ELSE IF desc.status # "Ok" THEN desc
                 ELSE Found(<<name.value, desc.value>>)

\* Result::expect / Option::expect on an accessor's result
Expect(r, msg) == IF r.status = "Err" THEN Abort(msg) ELSE r

-----------------------------------------------------------------------------
(* The accessors driven on their own over bounded pools *)

\* longest pool tried
MaxPoolLen == 3
\* largest in-range-or-just-past index tried (65535, the largest u16, is tried too)
MaxIndex == 4

\* the text "A"
TextA == <<65>>

\* the text "B"
TextB == <<66>>

PoolEntrySample ==
    { Utf8(TextA), Utf8(TextB), Class(1), Class(2), Class(0), String(1), NameAndType(1, 2) }

PoolConfigs == UNION { [1..n -> PoolEntrySample] : n \in 0..MaxPoolLen }

IndexSample == (0..MaxIndex) \cup {65535}

PoolInit ==
    /\ f = <<>>
    /\ position = 0
    /\ constant_pool \in PoolConfigs
    /\ byte_code = <<>>
    /\ operand_stack = <<>>
    /\ stdout = <<>>
    /\ dispatched = <<>>
    /\ class_file = IdleClassFile
    /\ result = NoResult
    /\ overflow_checks \in BOOLEAN
    /\ pc = "pool"

PoolStep(op, i, r) ==
    /\ pc = "pool"
    /\ result' = [op |-> op, index |-> i, r |-> r]
    /\ UNCHANGED <<f, position, constant_pool, interpVars, class_file,
                   overflow_checks, pc>>

DoGetValue == \E i \in IndexSample : PoolStep("get_value", i, get_value(constant_pool, i))

DoGetClassName ==
    \E i \in IndexSample :
        PoolStep("get_class_name_from_index", i, get_class_name_from_index(constant_pool, i))

DoGetUtf8 ==
    \E i \in IndexSample :
        PoolStep("get_utf8_from_index", i, get_utf8_from_index(constant_pool, i))

DoGetNameAndType ==
    \E i \in IndexSample :
        PoolStep("get_name_and_type", i, get_name_and_type(constant_pool, i))

PoolNext == DoGetValue \/ DoGetClassName \/ DoGetUtf8 \/ DoGetNameAndType

SpecPool == PoolInit /\ [][PoolNext]_vars

\* the entry a 0-indexed vector stores at internal position k
AtInternal(v, k) == v[k + 1]

InRange(i) == 1 <= i /\ i <= Len(constant_pool)

OutOfRangeFailure(r) ==
    r.status = "Panic" /\ r.value \in {IllegalIndex, SubtractOverflow}

\* C3: get(i) returns the entry at internal (0-based) position i-1 when
\* 1 <= i <= n, so index 1 yields the first entry; for i = 0 or i > n, get,
\* resolve_class_name and resolve_utf8 all fail with an out-of-range failure
\* and return no entry.
C3_OneBasedIndex ==
    (pc = "pool" /\ result.op # "none") =>
        /\ (result.op = "get_value" /\ InRange(result.index))
              => result.r = Found(AtInternal(constant_pool, result.index - 1))
        /\ (result.op = "get_value" /\ result.index = 1 /\ constant_pool # <<>>)
              => result.r = Found(Head(constant_pool))
        /\ (result.op \in {"get_value", "get_class_name_from_index", "get_utf8_from_index"}
              /\ ~InRange(result.index))
              => OutOfRangeFailure(result.r)

\* get(n) on a pool of n >= 2 entries returned the last entry
C3_Witness ==
    /\ pc = "pool"
    /\ result.op = "get_value"
    /\ Len(constant_pool) >= 2
    /\ result.index = Len(constant_pool)
    /\ result.r.status = "Ok"
    /\ constant_pool[1] # constant_pool[Len(constant_pool)]

\* C12: for an in-range index, get_utf8_from_index returns the text exactly
\* when the entry at the index is a Utf8 entry and otherwise fails with the
\* type-mismatch error; get_class_name_from_index returns the text exactly
\* when the entry is a Class entry whose name_index refers to a Utf8 entry,
\* and fails with the type-mismatch error when the entry is not a Class entry
\* or its name_index refers to an entry that is not Utf8.
C12_TypedResolution ==
    (pc = "pool" /\ result.op # "none" /\ InRange(result.index)) =>
        LET e == constant_pool[result.index]
        IN  /\ result.op = "get_utf8_from_index" =>
                  /\ e.kind = "Utf8" => result.r = Found(e.value)
                  /\ e.kind # "Utf8" => result.r = Mismatch
            /\ result.op = "get_class_name_from_index" =>
                  /\ e.kind # "Class" => result.r = Mismatch
                  /\ (e.kind = "Class" /\ InRange(e.name_index)) =>
                        LET n == constant_pool[e.name_index]
                        IN  /\ n.kind = "Utf8" => result.r = Found(n.value)
                            /\ n.kind # "Utf8" => result.r = Mismatch
                  /\ result.r.status = "Ok" =>
                        /\ e.kind = "Class"
                        /\ InRange(e.name_index)
                        /\ constant_pool[e.name_index].kind = "Utf8"

\* a class name was resolved through a Class entry to a Utf8 entry that is
\* not the first Utf8 entry of the pool
C12_Witness ==
    /\ pc = "pool"
    /\ result.op = "get_class_name_from_index"
    /\ result.index = 3
    /\ Len(constant_pool) = 3
    /\ constant_pool[1] = Utf8(TextA)
    /\ constant_pool[2] = Utf8(TextB)
    /\ result.r = Found(TextB)

-----------------------------------------------------------------------------
(* Class-file parser: src/src/class.rs *)

\* a parser's result also says how many bytes its reads asked for (wanted):
\* a read that asks for more than the source holds is zero-padded, not refused
Parsed(v, p, w) == [status |-> "Ok", value |-> v, pos |-> p, wanted |-> w]

Failed(r) == [status |-> r.status, value |-> r.value, pos |-> r.pos, wanted |-> 0]

\* mod ConstantPoolType
TagUtf8 == 1

TagInteger == 3

TagFloat == 4

TagLong == 5

TagDouble == 6

TagClass == 7

TagString == 8

TagFieldref == 9

TagMethodref == 10

TagInterfaceMethodref == 11

TagNameAndType == 12

TagMethodHandle == 15

TagMethodType == 16

TagInvokeDynamic == 18

ValidTags ==
    {TagUtf8, TagInteger, TagFloat, TagLong, TagDouble, TagClass, TagString, TagFieldref,
     TagMethodref, TagInterfaceMethodref, TagNameAndType, TagMethodHandle, TagMethodType,
     TagInvokeDynamic}

UnexpectedTag == "Unexpected constant pool type while parsing class file!"

\* two consecutive parse_u2 reads, as in the arms made of two indices
TwoIndices(s, p) ==
    LET a == parse_u2(s, p)
        b == parse_u2(s, a.pos)
    IN  [first |-> a.value, second |-> b.value, pos |-> b.pos]

\* the ConstantPoolType::Utf8 arm, reading the length as one byte only
ParseUtf8EntryShortLength(s, p) ==
    LET length == parse_u1(s, p)
        text   == parse_utf8(s, length.pos, length.value)
    IN  IF text.status # "Ok" THEN Failed(text)
        ELSE Parsed(Utf8(text.value), text.pos, 2 + length.value)

\* the ConstantPoolType::Utf8 arm
ParseUtf8Entry(s, p) ==
    LET length == parse_u2(s, p)
        text   == parse_utf8(s, length.pos, length.value)
    IN  IF text.status # "Ok" THEN Failed(text)
        ELSE Parsed(Utf8(text.value), text.pos, 3 + length.value)

\* the ConstantPoolType::MethodHandle arm
ParseMethodHandleEntry(s, p) ==
    LET k == parse_u1(s, p)
        i == parse_u2(s, k.pos)
    IN  Parsed(MethodHandle(k.value, i.value), i.pos, 4)

\* impl Parsable for ConstantPoolInfo
ConstantPoolInfoParse(s, p0) ==
    LET tag == parse_u1(s, p0)
        p   == tag.pos
    IN  CASE tag.value = TagClass ->
                LET i == parse_u2(s, p) IN Parsed(Class(i.value), i.pos, 3)
          [] tag.value = TagFieldref ->
                LET t == TwoIndices(s, p) IN Parsed(Fieldref(t.first, t.second), t.pos, 5)
          [] tag.value = TagMethodref ->
                LET t == TwoIndices(s, p) IN Parsed(Methodref(t.first, t.second), t.pos, 5)
          [] tag.value = TagInterfaceMethodref ->
                LET t == TwoIndices(s, p)
                IN  Parsed(InterfaceMethodref(t.first, t.second), t.pos, 5)
          [] tag.value = TagString ->
                LET i == parse_u2(s, p) IN Parsed(String(i.value), i.pos, 3)
          [] tag.value = TagInteger ->
                LET v == parse_u4_as_i32(s, p) IN Parsed(Integer(v.value), v.pos, 5)
          [] tag.value = TagFloat ->
                LET v == parse_u4_as_f32(s, p) IN Parsed(Float(v.value), v.pos, 5)
          [] tag.value = TagLong ->
                LET v == parse_u8_as_i64(s, p) IN Parsed(Long(v.value), v.pos, 9)
          [] tag.value = TagDouble ->
                LET v == parse_u8_as_f64(s, p) IN Parsed(Double(v.value), v.pos, 9)
          [] tag.value = TagNameAndType ->
                LET t == TwoIndices(s, p) IN Parsed(NameAndType(t.first, t.second), t.pos, 5)
          [] tag.value = TagUtf8 -> ParseUtf8Entry(s, p)
          [] tag.value = TagMethodHandle -> ParseMethodHandleEntry(s, p)
          [] tag.value = TagMethodType ->
                LET i == parse_u2(s, p) IN Parsed(MethodType(i.value), i.pos, 3)
          [] tag.value = TagInvokeDynamic ->
                LET t == TwoIndices(s, p)
                IN  Parsed(InvokeDynamic(t.first, t.second), t.pos, 5)
          [] OTHER -> Failed(Err(UnexpectedTag, p))

\* "ConstantValue"
Text_ConstantValue == <<67, 111, 110, 115, 116, 97, 110, 116, 86, 97, 108, 117, 101>>

\* "Code"
Text_Code == <<67, 111, 100, 101>>

\* "SourceFile"
Text_SourceFile == <<83, 111, 117, 114, 99, 101, 70, 105, 108, 101>>

\* "LineNumberTable"
Text_LineNumberTable ==
    <<76, 105, 110, 101, 78, 117, 109, 98, 101, 114, 84, 97, 98, 108, 101>>

RecognisedAttributeNames ==
    {Text_ConstantValue, Text_Code, Text_SourceFile, Text_LineNumberTable}

ExpectedAttributeName == "Expected value at attribute_name_index to be utf-8"

ExpectedSourceFileName == "Expected source file name to be utf-8"

\* the cursor after reads that asked for w bytes from position c of s
After(s, c, w) == IF c >= Len(s) THEN c ELSE Min(c + w, Len(s))

\* n rows of k u2 fields each, read one parse_u2 after the other from
\* position c of s (Exception::parse has k = 4, LineNumber::parse k = 2);
\* row i, field j is the u2 at offset c + 2 * (k * (i - 1) + (j - 1))
Rows(s, c, n, k) ==
    [i \in 1..n |-> [j \in 1..k |-> parse_u2(s, c + 2 * (k * (i - 1) + (j - 1))).value]]

\* Exception::parse with end_pc and handler_pc read in the wrong order
ExceptionOfSwapped(row) ==
    [start_pc |-> row[1], end_pc |-> row[3], handler_pc |-> row[2], catch_type |-> row[4]]

\* impl Parsable for Exception
ExceptionOf(row) ==
    [start_pc |-> row[1], end_pc |-> row[2], handler_pc |-> row[3], catch_type |-> row[4]]

\* impl Parsable for LineNumber
LineNumberOf(row) == [start_pc |-> row[1], line_number |-> row[2]]

\* impl ClassParsable for AttributeInfo; AttributesParse is the loop
\* `for _ in 0..attributes_count { attributes.push(AttributeInfo::parse(..)?) }`
RECURSIVE AttributeInfoParse(_, _, _), AttributesParse(_, _, _, _, _, _)

\* the "Code" arm on the isolated cursor over bytes, in three parts:
\* the nested attributes and the result; c is the cursor before attributes_count
CodeAttributes(pool, bytes, max_stack, max_locals, code, exception_table, c) ==
    LET attributes_count == parse_u2(bytes, c)
        attrs == AttributesParse(pool, bytes, attributes_count.pos,
                                 attributes_count.value, <<>>, 0)
    IN  IF attrs.status # "Ok" THEN Failed(attrs)
        ELSE Parsed([kind            |-> "Code",
                     max_stack       |-> max_stack,
                     max_locals      |-> max_locals,
                     code            |-> code,
                     exception_table |-> exception_table,
                     attributes      |-> attrs.value],
                    attrs.pos,
                    8 + Len(code) + 2 + 8 * Len(exception_table) + 2 + attrs.wanted)

\* the exception table; c is the cursor before exception_table_length
CodeExceptions(pool, bytes, max_stack, max_locals, code, c) ==
    LET exception_table_length == parse_u2(bytes, c)
        rows == Rows(bytes, exception_table_length.pos, exception_table_length.value, 4)
    IN  CodeAttributes(pool, bytes, max_stack, max_locals, code,
                       [i \in 1..Len(rows) |-> ExceptionOf(rows[i])],
                       After(bytes, exception_table_length.pos, 8 * Len(rows)))

\* max_stack, max_locals, code_length and the code
CodeParse(pool, bytes) ==
    LET max_stack   == parse_u2(bytes, 0)
        max_locals  == parse_u2(bytes, max_stack.pos)
        code_length == parse_u4(bytes, max_locals.pos)
        code        == parse_n_bytes(bytes, code_length.pos, AsUsize(code_length.value))
    IN  IF code.status # "Ok" THEN Failed(code)
        ELSE CodeExceptions(pool, bytes, max_stack.value, max_locals.value,
                            code.value, code.pos)

\* the arm for any other name, were the payload dropped
OtherAttributeDropsPayload(bytes) == Parsed([kind |-> "Other", bytes |-> <<>>], 0, 0)

\* the arm for any other name
OtherAttribute(bytes) == Parsed([kind |-> "Other", bytes |-> bytes], 0, 0)

\* `match attribute_name.as_str()` on the isolated cursor over bytes
AttributeKindParse(pool, attribute_name, bytes) ==
    CASE attribute_name = Text_ConstantValue ->
            LET i == parse_u2(bytes, 0)
            IN  Parsed([kind |-> "ConstantValue", constant_value_index |-> i.value], i.pos, 2)
      [] attribute_name = Text_Code -> CodeParse(pool, bytes)
      [] attribute_name = Text_SourceFile ->
            LET i    == parse_u2(bytes, 0)
                text == Expect(get_utf8_from_index(pool, i.value), ExpectedSourceFileName)
            IN  IF text.status # "Ok" THEN Failed(Panic(text.value, i.pos))
                ELSE Parsed([kind |-> "SourceFile", source_file_index |-> i.value,
                             source_file_value |-> text.value], i.pos, 2)
      [] attribute_name = Text_LineNumberTable ->
            LET length == parse_u2(bytes, 0)
                n      == length.value
                rows   == Rows(bytes, length.pos, n, 2)
            IN  Parsed([kind |-> "LineNumberTable",
                        line_number_table |-> [i \in 1..n |-> LineNumberOf(rows[i])]],
                       After(bytes, length.pos, 4 * n), 2 + 4 * n)
      [] OTHER -> OtherAttribute(bytes)

\* value: the AttributeInfo; pos: the enclosing cursor afterwards; declared:
\* attribute_length; consumed and wanted: what the variant's sub-parser read
\* from, and asked of, the isolated cursor
AttributeInfoParse(pool, s, p) ==
    LET attribute_name_index == parse_u2(s, p)
        attribute_name ==
            Expect(get_utf8_from_index(pool, attribute_name_index.value),
                   ExpectedAttributeName)
    IN  IF attribute_name.status # "Ok"
        THEN Failed(Panic(attribute_name.value, attribute_name_index.pos))
        ELSE
        LET attribute_length == parse_u4(s, attribute_name_index.pos)
            bytes == parse_n_bytes(s, attribute_length.pos, AsUsize(attribute_length.value))
        IN  IF bytes.status # "Ok" THEN Failed(bytes)
            ELSE
            LET attribute == AttributeKindParse(pool, attribute_name.value, bytes.value)
            IN  IF attribute.status # "Ok"
                THEN Failed([attribute EXCEPT !.pos = bytes.pos])
                ELSE [status   |-> "Ok",
                      value    |-> [attribute_name_index |-> attribute_name_index.value,
                                    attribute_name       |-> attribute_name.value,
                                    attribute            |-> attribute.value],
                      pos      |-> bytes.pos,
                      wanted   |-> 6 + Len(bytes.value),
                      declared |-> Len(bytes.value),
                      consumed |-> attribute.pos,
                      asked    |-> attribute.wanted]

AttributesParse(pool, s, p, count, acc, w) ==
    IF count = 0 THEN Parsed(acc, p, w)
    ELSE LET a == AttributeInfoParse(pool, s, p)
         IN  IF a.status # "Ok" THEN Failed(a)
             ELSE AttributesParse(pool, s, a.pos, count - 1, Append(acc, a.value),
                                  w + a.wanted)

\* enum ClassAccessFlags, in the order ClassAccessFlags::iter() yields them
ClassAccessFlags ==
    << <<"Public", 1>>, <<"Final", 16>>, <<"Super", 32>>, <<"Interface", 512>>,
       <<"Abstract", 1024>>, <<"Synthetic", 4096>>, <<"Annotation", 8192>>,
       <<"Enum", 16384>> >>

\* enum MethodAccessFlags, in the order MethodAccessFlags::iter() yields them
MethodAccessFlags ==
    << <<"Public", 1>>, <<"Private", 2>>, <<"Protected", 4>>, <<"Static", 8>>,
       <<"Final", 16>>, <<"Synchronized", 32>>, <<"Bridge", 64>>, <<"VarArgs", 128>>,
       <<"Native", 256>>, <<"Abstract", 1024>>, <<"Strict", 2048>>,
       <<"Synthetic", 4096>> >>

\* `access_flags_byte & flag as u16 != 0` for a one-bit flag
HasBit(mask, bit) == (mask \div bit) % 2 = 1

\* for flag in iter() { if mask & flag != 0 { access_flags.push(flag) } }
DecodeFlags(flags, mask) ==
    LET set == SelectSeq(flags, LAMBDA e : HasBit(mask, e[2]))
    IN  [i \in 1..Len(set) |-> set[i][1]]

ExpectedDescriptor == "Expected value at descriptor to be utf-8"

\* impl ClassParsable for MethodInfo, up to the attributes loop
MethodHeaderParse(pool, s, p) ==
    LET access_flags_byte == parse_u2(s, p)
        name_index        == parse_u2(s, access_flags_byte.pos)
        name == Expect(get_utf8_from_index(pool, name_index.value), ExpectedAttributeName)
    IN  IF name.status # "Ok" THEN Failed(Panic(name.value, name_index.pos))
        ELSE
        LET descriptor_index == parse_u2(s, name_index.pos)
            descriptor == Expect(get_utf8_from_index(pool, descriptor_index.value),
                                 ExpectedDescriptor)
        IN  IF descriptor.status # "Ok"
            THEN Failed(Panic(descriptor.value, descriptor_index.pos))
            ELSE
            LET attributes_count == parse_u2(s, descriptor_index.pos)
            IN  Parsed([access_flags     |-> DecodeFlags(MethodAccessFlags,
                                                         access_flags_byte.value),
                        name_index       |-> name_index.value,
                        name             |-> name.value,
                        descriptor_index |-> descriptor_index.value,
                        descriptor       |-> descriptor.value,
                        attributes_count |-> attributes_count.value,
                        attributes       |-> <<>>],
                       attributes_count.pos, 8)

\* for _ in 0..interfaces_count, were interfaces simply not looked at
InterfacesIgnored(interfaces_count) == FALSE

\* for _ in 0..interfaces_count { todo!("Implement interfaces parsing") }
InterfacesUnsupported(interfaces_count) == interfaces_count # 0

\* for _ in 0..fields_count { todo!("Implement fields parsing") }
FieldsUnsupported(fields_count) == fields_count # 0

UnsupportedInterfaces == "not yet implemented: Implement interfaces parsing"

UnsupportedFields == "not yet implemented: Implement fields parsing"

-----------------------------------------------------------------------------
(* ClassFile::parse as a state machine: one action per group of reads *)

NoMethod == [attributes_count |-> 0, attributes |-> <<>>]

EmptyClassFile ==
    [magic |-> <<>>, minor_version |-> 0, major_version |-> 0,
     constant_pool_count |-> 0, access_flags |-> <<>>, this_class |-> 0,
     super_class |-> 0, interfaces_count |-> 0, fields_count |-> 0,
     methods_count |-> 0, methods |-> <<>>, method |-> NoMethod,
     attributes_count |-> 0, attributes |-> <<>>]

\* where a failed parse leaves the program: an io::Error returned, or a panic
StopAt(r) == IF r.status = "Err" THEN "failed" ELSE "panicked"

ParseRecord(op, r) == [op |-> op, from |-> position, r |-> r]

ParseFrame == <<interpVars, overflow_checks>>

\* magic, minor_version, major_version, constant_pool_count
ParseHeader ==
    /\ pc = "magic"
    /\ LET magic == parse_u4_as_bytes(f, position)
           minor_version == parse_u2(f, magic.pos)
           major_version == parse_u2(f, minor_version.pos)
           constant_pool_count == parse_u2(f, major_version.pos)
       IN  /\ class_file' = [class_file EXCEPT
                               !.magic = magic.value,
                               !.minor_version = minor_version.value,
                               !.major_version = major_version.value,
                               !.constant_pool_count = constant_pool_count.value]
           /\ position' = constant_pool_count.pos
           /\ result' = ParseRecord("header", constant_pool_count)
    /\ pc' = "constant_pool"
    /\ UNCHANGED <<f, constant_pool, ParseFrame>>

\* for _ in 1..constant_pool_count
MoreConstants == Len(constant_pool) + 1 < class_file.constant_pool_count

ParseConstant ==
    /\ pc = "constant_pool"
    /\ MoreConstants
    /\ LET entry == ConstantPoolInfoParse(f, position)
       IN  /\ result' = ParseRecord("constant", entry)
           /\ position' = entry.pos
           /\ IF entry.status = "Ok"
              THEN constant_pool' = Append(constant_pool, entry.value) /\ pc' = pc
              ELSE constant_pool' = constant_pool /\ pc' = StopAt(entry)
    /\ UNCHANGED <<f, class_file, ParseFrame>>

\* access_flags, this_class, super_class
ParseClassInfo ==
    /\ pc = "constant_pool"
    /\ ~MoreConstants
    /\ LET access_flags_byte == parse_u2(f, position)
           this_class == parse_u2(f, access_flags_byte.pos)
           super_class == parse_u2(f, this_class.pos)
       IN  /\ class_file' = [class_file EXCEPT
                               !.access_flags = DecodeFlags(ClassAccessFlags,
                                                            access_flags_byte.value),
                               !.this_class = this_class.value,
                               !.super_class = super_class.value]
           /\ position' = super_class.pos
           /\ result' = ParseRecord("class_info", super_class)
    /\ pc' = "interfaces"
    /\ UNCHANGED <<f, constant_pool, ParseFrame>>

ParseInterfaces ==
    /\ pc = "interfaces"
    /\ LET interfaces_count == parse_u2(f, position)
       IN  /\ class_file' = [class_file EXCEPT !.interfaces_count = interfaces_count.value]
           /\ position' = interfaces_count.pos
           /\ IF InterfacesUnsupported(interfaces_count.value)
              THEN /\ result' = ParseRecord("interfaces",
                                    Panic(UnsupportedInterfaces, interfaces_count.pos))
                   /\ pc' = "panicked"
              ELSE /\ result' = ParseRecord("interfaces", interfaces_count)
                   /\ pc' = "fields"
    /\ UNCHANGED <<f, constant_pool, ParseFrame>>

ParseFields ==
    /\ pc = "fields"
    /\ LET fields_count == parse_u2(f, position)
       IN  /\ class_file' = [class_file EXCEPT !.fields_count = fields_count.value]
           /\ position' = fields_count.pos
           /\ IF FieldsUnsupported(fields_count.value)
              THEN /\ result' = ParseRecord("fields",
                                    Panic(UnsupportedFields, fields_count.pos))
                   /\ pc' = "panicked"
              ELSE /\ result' = ParseRecord("fields", fields_count)
                   /\ pc' = "methods_count"
    /\ UNCHANGED <<f, constant_pool, ParseFrame>>

ParseMethodsCount ==
    /\ pc = "methods_count"
    /\ LET methods_count == parse_u2(f, position)
       IN  /\ class_file' = [class_file EXCEPT !.methods_count = methods_count.value]
           /\ position' = methods_count.pos
           /\ result' = ParseRecord("methods_count", methods_count)
    /\ pc' = "methods"
    /\ UNCHANGED <<f, constant_pool, ParseFrame>>

\* for _ in 0..methods_count
MoreMethods == Len(class_file.methods) < class_file.methods_count

\* MethodInfo::parse up to its attributes_count
ParseMethodHeader ==
    /\ pc = "methods"
    /\ MoreMethods
    /\ LET header == MethodHeaderParse(constant_pool, f, position)
       IN  /\ result' = ParseRecord("method_header", header)
           /\ position' = header.pos
           /\ IF header.status = "Ok"
              THEN /\ class_file' = [class_file EXCEPT !.method = header.value]
                   /\ pc' = "method_attributes"
              ELSE /\ class_file' = class_file
                   /\ pc' = StopAt(header)
    /\ UNCHANGED <<f, constant_pool, ParseFrame>>

MoreMethodAttributes ==
    Len(class_file.method.attributes) < class_file.method.attributes_count

\* one AttributeInfo::parse of the loop in MethodInfo::parse
ParseMethodAttribute ==
    /\ pc = "method_attributes"
    /\ MoreMethodAttributes
    /\ LET a == AttributeInfoParse(constant_pool, f, position)
       IN  /\ result' = ParseRecord("attribute", a)
           /\ position' = a.pos
           /\ IF a.status = "Ok"
              THEN /\ class_file' = [class_file EXCEPT
                                       !.method.attributes = Append(@, a.value)]
                   /\ pc' = pc
              ELSE /\ class_file' = class_file
                   /\ pc' = StopAt(a)
    /\ UNCHANGED <<f, constant_pool, ParseFrame>>

\* Ok(MethodInfo { .. }) and methods.push
FinishMethod ==
    /\ pc = "method_attributes"
    /\ ~MoreMethodAttributes
    /\ class_file' = [class_file EXCEPT
                        !.methods = Append(@, class_file.method),
                        !.method = NoMethod]
    /\ result' = ParseRecord("method", Ok(class_file.method, position))
    /\ pc' = "methods"
    /\ UNCHANGED <<f, position, constant_pool, ParseFrame>>

ParseAttributesCount ==
    /\ pc = "methods"
    /\ ~MoreMethods
    /\ LET attributes_count == parse_u2(f, position)
       IN  /\ class_file' = [class_file EXCEPT !.attributes_count = attributes_count.value]
           /\ position' = attributes_count.pos
           /\ result' = ParseRecord("attributes_count", attributes_count)
    /\ pc' = "attributes"
    /\ UNCHANGED <<f, constant_pool, ParseFrame>>

MoreAttributes == Len(class_file.attributes) < class_file.attributes_count

\* one AttributeInfo::parse of the loop in ClassFile::parse
ParseAttribute ==
    /\ pc = "attributes"
    /\ MoreAttributes
    /\ LET a == AttributeInfoParse(constant_pool, f, position)
       IN  /\ result' = ParseRecord("attribute", a)
           /\ position' = a.pos
           /\ IF a.status = "Ok"
              THEN /\ class_file' = [class_file EXCEPT !.attributes = Append(@, a.value)]
                   /\ pc' = pc
              ELSE /\ class_file' = class_file
                   /\ pc' = StopAt(a)
    /\ UNCHANGED <<f, constant_pool, ParseFrame>>

\* Ok(ClassFile { .. })
Finish ==
    /\ pc = "attributes"
    /\ ~MoreAttributes
    /\ result' = ParseRecord("class_file", Ok("ClassFile", position))
    /\ pc' = "parsed"
    /\ UNCHANGED <<f, position, constant_pool, class_file, ParseFrame>>

ParseNext ==
    \/ ParseHeader
    \/ ParseConstant
    \/ ParseClassInfo
    \/ ParseInterfaces
    \/ ParseFields
    \/ ParseMethodsCount
    \/ ParseMethodHeader
    \/ ParseMethodAttribute
    \/ FinishMethod
    \/ ParseAttributesCount
    \/ ParseAttribute
    \/ Finish

-----------------------------------------------------------------------------
(* The class files the parser is run on *)

\* most ordinary constants before the constant under study
MaxLeadConstants == 1
\* most bytes cut off the end of a stream that ends with its constant pool
MaxCut == 2
\* most ordinary attributes before, and after, the attribute under study
MaxLeadAttributes == 1
MaxTrailAttributes == 1
\* largest interfaces_count and fields_count tried
MaxUnsupported == 2

U2Bytes(n) == <<n \div 256, n % 256>>

U4Bytes(n) == <<0, 0>> \o U2Bytes(n)

\* "Foo"
Text_Foo == <<70, 111, 111>>

EncUtf8(text) == <<TagUtf8>> \o U2Bytes(Len(text)) \o text

EncAttribute(name_index, attribute_length, payload) ==
    U2Bytes(name_index) \o U4Bytes(attribute_length) \o payload

EncCode(max_stack, max_locals, code, rows, attrs) ==
    U2Bytes(max_stack) \o U2Bytes(max_locals) \o U4Bytes(Len(code)) \o code
        \o U2Bytes(Len(rows)) \o Concat(rows) \o U2Bytes(Len(attrs)) \o Concat(attrs)

\* magic CA FE BA BE, minor 0, major 52
HeaderBytes == <<202, 254, 186, 190, 0, 0, 0, 52>>

\* constants tried one at a time: every valid tag with a full payload, a
\* Utf8 of two-byte characters, Utf8 entries that are not UTF-8, and tags
\* that are not valid
ConstantSample ==
    { <<TagClass, 0, 1>>, <<TagFieldref, 0, 1, 0, 2>>, <<TagMethodref, 0, 1, 0, 2>>,
      <<TagInterfaceMethodref, 0, 1, 0, 2>>, <<TagString, 0, 1>>,
      <<TagInteger, 255, 255, 255, 254>>, <<TagFloat, 63, 128, 0, 0>>,
      <<TagLong, 0, 0, 0, 0, 0, 0, 1, 0>>, <<TagDouble, 64, 9, 33, 251, 84, 68, 45, 24>>,
      <<TagNameAndType, 0, 1, 0, 2>>, EncUtf8(Text_Foo), EncUtf8(<<>>),
      EncUtf8(<<195, 169>>), EncUtf8(<<255>>), EncUtf8(<<65, 192, 128>>),
      <<TagMethodHandle, 1, 0, 2>>, <<TagMethodType, 0, 1>>,
      <<TagInvokeDynamic, 0, 1, 0, 2>>,
      <<0, 0, 1>>, <<2, 0, 1>>, <<13, 0>>, <<14>>, <<17, 0, 1>>, <<19, 0, 1>>,
      <<255, 0, 1>> }

LeadConstants == { EncUtf8(Text_Foo), <<TagClass, 0, 1>> }

SeqsUpTo(S, n) == UNION { [1..k -> S] : k \in 0..n }

\* a stream that ends with its constant pool: some ordinary constants, the
\* constant under study, up to MaxCut bytes cut off, and a constant_pool_count
\* that asks for the constants present or for one more
PoolStreams ==
    { HeaderBytes \o U2Bytes(Len(x[1]) + 1 + x[4]) \o
        SubSeq(Concat(x[1]) \o x[2], 1, Len(Concat(x[1]) \o x[2]) - x[3]) :
      x \in { y \in SeqsUpTo(LeadConstants, MaxLeadConstants) \X ConstantSample
                      \X (0..MaxCut) \X (0..2) : y[3] < Len(y[2]) } }

\* a pool with no constant at all: constant_pool_count 0 and 1
EmptyPoolStreams == { HeaderBytes \o U2Bytes(n) : n \in 0..1 }

\* the pool of the streams that go on after the pool:
\* 1 "Code", 2 "ConstantValue", 3 "SourceFile", 4 "LineNumberTable", 5 "Foo",
\* 6 Class(5)
BodyPool ==
    << EncUtf8(Text_Code), EncUtf8(Text_ConstantValue), EncUtf8(Text_SourceFile),
       EncUtf8(Text_LineNumberTable), EncUtf8(Text_Foo), <<TagClass, 0, 5>> >>

\* header, pool, access_flags 0x0021, this_class 6, super_class 6
Preamble ==
    HeaderBytes \o U2Bytes(Len(BodyPool) + 1) \o Concat(BodyPool)
        \o U2Bytes(33) \o U2Bytes(6) \o U2Bytes(6)

LineNumbers1 == EncAttribute(4, 6, <<0, 1, 0, 0, 0, 7>>)

ExceptionRow1 == <<0, 0, 0, 4, 0, 4, 0, 6>>

\* attributes tried one at a time
AttributeSample ==
    { \* ConstantValue: exact, two bytes left over, one byte short, empty
      EncAttribute(2, 2, <<0, 6>>), EncAttribute(2, 4, <<0, 6, 170, 187>>),
      EncAttribute(2, 1, <<6>>), EncAttribute(2, 0, <<>>),
      \* SourceFile: exact, left over, index of a Class entry
      EncAttribute(3, 2, <<0, 5>>), EncAttribute(3, 3, <<0, 5, 9>>),
      EncAttribute(3, 2, <<0, 6>>),
      \* LineNumberTable: exact, a row short, left over
      LineNumbers1, EncAttribute(4, 4, <<0, 1, 0, 0>>),
      EncAttribute(4, 7, <<0, 1, 0, 0, 0, 7, 9>>),
      \* Code: exact and bare; exact with one exception row and a nested
      \* attribute; left over; cut after the code; code_length past the payload
      EncAttribute(1, 13, EncCode(2, 1, <<177>>, <<>>, <<>>)),
      EncAttribute(1, 35, EncCode(2, 1, <<18, 1, 177>>, <<ExceptionRow1>>, <<LineNumbers1>>)),
      EncAttribute(1, 14, EncCode(2, 1, <<177>>, <<>>, <<>>) \o <<9>>),
      EncAttribute(1, 9, <<0, 2, 0, 1, 0, 0, 0, 1, 177>>),
      EncAttribute(1, 9, <<0, 2, 0, 1, 0, 0, 0, 5, 177>>),
      \* unrecognised name: with payload, empty, payload cut off by the end
      EncAttribute(5, 3, <<9, 8, 7>>), EncAttribute(5, 0, <<>>),
      EncAttribute(5, 4, <<9, 8>>),
      \* name index of a Class entry, and name index 0
      EncAttribute(6, 0, <<>>), EncAttribute(0, 0, <<>>) }

OrdinaryAttributes == { EncAttribute(5, 2, <<1, 2>>), EncAttribute(2, 2, <<0, 6>>) }

\* attribute lists: ordinary attributes around the attribute under study
AttributeLists ==
    { x[1] \o <<x[2]>> \o x[3] :
        x \in SeqsUpTo(OrdinaryAttributes, MaxLeadAttributes) \X AttributeSample
                 \X SeqsUpTo(OrdinaryAttributes, MaxTrailAttributes) }

\* a method "Foo" with descriptor "Foo", access flags 0x0009
EncMethod(attrs) ==
    U2Bytes(9) \o U2Bytes(5) \o U2Bytes(5) \o U2Bytes(Len(attrs)) \o Concat(attrs)

\* the list as the class's attributes, after no method
ClassAttributeStreams ==
    { Preamble \o U2Bytes(0) \o U2Bytes(0) \o U2Bytes(0) \o U2Bytes(Len(as)) \o Concat(as) :
        as \in AttributeLists }

\* the list as the attributes of the first of two methods
MethodAttributeStreams ==
    { Preamble \o U2Bytes(0) \o U2Bytes(0) \o U2Bytes(2) \o EncMethod(as) \o EncMethod(<<>>)
        \o U2Bytes(0) :
        as \in AttributeLists }

\* a method whose name or descriptor index does not resolve
BadMethodStreams ==
    { Preamble \o U2Bytes(0) \o U2Bytes(0) \o U2Bytes(1) \o U2Bytes(9) \o U2Bytes(x[1])
        \o U2Bytes(x[2]) \o U2Bytes(0) \o U2Bytes(0) : x \in {<<6, 5>>, <<5, 6>>, <<5, 0>>} }

\* streams with interfaces or fields: the count, then bytes that would be
\* the interfaces or fields, then the rest of a class with one method
UnsupportedStreams ==
    { Preamble \o U2Bytes(x[1]) \o x[3] \o U2Bytes(x[2]) \o x[3]
        \o U2Bytes(1) \o EncMethod(<<>>) \o U2Bytes(0) :
        x \in { y \in (0..MaxUnsupported) \X (0..MaxUnsupported) \X {<<>>, <<0, 6>>} :
                  y[1] + y[2] > 0 } }

\* streams that end in the middle of the counts
CutStreams == { Preamble \o c : c \in { <<>>, <<1>>, <<0>>, <<0, 0, 1>>, <<0, 0, 0, 0, 1>> } }

ClassSources ==
    PoolStreams \cup EmptyPoolStreams \cup ClassAttributeStreams \cup MethodAttributeStreams
        \cup BadMethodStreams \cup UnsupportedStreams \cup CutStreams

ParseInit ==
    /\ f \in ClassSources
    /\ position = 0
    /\ constant_pool = <<>>
    /\ byte_code = <<>>
    /\ operand_stack = <<>>
    /\ stdout = <<>>
    /\ dispatched = <<>>
    /\ class_file = EmptyClassFile
    /\ result = NoResult
    /\ overflow_checks \in BOOLEAN
    /\ pc = "magic"

SpecParse == ParseInit /\ [][ParseNext]_vars

-----------------------------------------------------------------------------
(* Claims about the parser.  The claims read the input stream f themselves: *)
(* BE16At is the big-endian 16-bit number in two bytes that are there.     *)

BE16At(s, p) == s[p + 1] * 256 + s[p + 2]

\* the last step parsed an attribute whose header starts at result.from
AttributeStep == pc \in {"method_attributes", "attributes", "failed", "panicked"}
                 /\ result.op = "attribute"

\* the name the attribute's name index resolves to, when it does
AttributeNameAt(p) ==
    IF p + 2 <= Len(f) THEN get_utf8_from_index(constant_pool, BE16At(f, p)) ELSE Mismatch

\* the stream holds the attribute's six header bytes and its whole payload
HoldsAttribute(p) ==
    /\ p + 6 <= Len(f)
    /\ BE16At(f, p + 2) = 0
    /\ p + 6 + BE16At(f, p + 4) <= Len(f)

\* C7: for an attribute with a recognised name, the bytes the variant's
\* sub-parser consumes from the isolated cursor equal the declared
\* attribute_length: left-over bytes, or a sub-parser that runs past the end
\* of the cursor, are a parse error and yield no AttributeInfo.
C7_LengthIsExact ==
    ( /\ AttributeStep
      /\ AttributeNameAt(result.from).status = "Ok"
      /\ AttributeNameAt(result.from).value \in RecognisedAttributeNames
      /\ result.r.status = "Ok" )
    => ( /\ result.r.consumed = result.r.declared
         /\ result.r.asked = result.r.declared )

\* C8: an attribute whose name is none of the four recognised ones parses
\* to an Other variant holding the declared-length payload verbatim, the
\* stream advances by exactly 6 + attribute_length, and the parse goes on
\* from the byte after the payload: it does not abort.
C8_UnrecognisedIsKept ==
    ( /\ AttributeStep
      /\ AttributeNameAt(result.from).status = "Ok"
      /\ AttributeNameAt(result.from).value \notin RecognisedAttributeNames
      /\ HoldsAttribute(result.from) )
    => LET p   == result.from
           n   == BE16At(f, p + 4)
       IN  /\ result.r.status = "Ok"
           /\ result.r.value.attribute_name = AttributeNameAt(p).value
           /\ result.r.value.attribute_name_index = BE16At(f, p)
           /\ result.r.value.attribute = [kind |-> "Other", bytes |-> SubSeq(f, p + 7, p + 6 + n)]
           /\ position = p + 6 + n
           /\ pc \in {"method_attributes", "attributes"}
           /\ \/ pc = "attributes" /\ class_file.attributes[Len(class_file.attributes)]
                                       = result.r.value
              \/ pc = "method_attributes"
                   /\ class_file.method.attributes[Len(class_file.method.attributes)]
                        = result.r.value

\* an unrecognised attribute with a payload was kept, and the attribute
\* after it has been parsed from the byte after that payload
C8_Witness ==
    /\ pc = "attributes"
    /\ result.op = "attribute"
    /\ result.r.status = "Ok"
    /\ Len(class_file.attributes) >= 2
    /\ LET prev == class_file.attributes[Len(class_file.attributes) - 1]
       IN  /\ prev.attribute.kind = "Other"
           /\ Len(prev.attribute.bytes) > 0
           /\ SubSeq(f, result.from - Len(prev.attribute.bytes) + 1, result.from)
                = prev.attribute.bytes

\* C9: a nonzero interfaces_count fails the parse with the unsupported-feature
\* failure right after the count is read, before any interface byte is
\* consumed; likewise a nonzero fields_count; in neither case is a ClassFile
\* produced or any method parsed.
C9_CountsUnsupported ==
    /\ ( /\ result.op = "interfaces"
         /\ result.from + 2 <= Len(f)
         /\ BE16At(f, result.from) # 0 )
       => ( /\ pc = "panicked"
            /\ result.r = Panic(UnsupportedInterfaces, result.from + 2)
            /\ position = result.from + 2 )
    /\ ( /\ result.op = "fields"
         /\ result.from + 2 <= Len(f)
         /\ BE16At(f, result.from) # 0 )
       => ( /\ pc = "panicked"
            /\ result.r = Panic(UnsupportedFields, result.from + 2)
            /\ position = result.from + 2 )
    /\ ( /\ pc \in {"interfaces", "fields", "methods_count", "methods", "method_attributes",
                    "attributes", "parsed", "failed", "panicked"}
         /\ (class_file.interfaces_count # 0 \/ class_file.fields_count # 0) )
       => ( /\ pc = "panicked"
            /\ result.op \in {"interfaces", "fields"}
            /\ class_file.methods = <<>>
            /\ class_file.method = NoMethod
            /\ class_file.methods_count = 0 )

\* the parse stopped on interfaces_count = 1 with the bytes after the count
\* still in the stream
C9_Witness ==
    /\ pc = "panicked"
    /\ result.op = "interfaces"
    /\ class_file.interfaces_count = 1
    /\ position < Len(f)

\* the last step parsed a constant whose tag byte is at result.from
ConstantStep == pc \in {"constant_pool", "failed", "panicked"} /\ result.op = "constant"
                /\ result.from < Len(f)

\* the payload width of a tag; a Utf8's is 2 + its length field
PayloadWidth(tag, p) ==
    CASE tag \in {TagClass, TagString, TagMethodType} -> 2
      [] tag \in {TagFieldref, TagMethodref, TagInterfaceMethodref, TagNameAndType,
                  TagInvokeDynamic, TagInteger, TagFloat} -> 4
      [] tag \in {TagLong, TagDouble} -> 8
      [] tag = TagMethodHandle -> 3
      [] tag = TagUtf8 -> 2 + BE16At(f, p + 1)

KindOfTag(tag) ==
    CASE tag = TagClass -> "Class"
      [] tag = TagFieldref -> "Fieldref"
      [] tag = TagMethodref -> "Methodref"
      [] tag = TagInterfaceMethodref -> "InterfaceMethodref"
      [] tag = TagString -> "String"
      [] tag = TagInteger -> "Integer"
      [] tag = TagFloat -> "Float"
      [] tag = TagLong -> "Long"
      [] tag = TagDouble -> "Double"
      [] tag = TagNameAndType -> "NameAndType"
      [] tag = TagUtf8 -> "Utf8"
      [] tag = TagMethodHandle -> "MethodHandle"
      [] tag = TagMethodType -> "MethodType"
      [] tag = TagInvokeDynamic -> "InvokeDynamic"

\* the stream holds the whole entry whose tag byte is at p
HoldsConstant(p) ==
    /\ f[p + 1] \in ValidTags
    /\ f[p + 1] = TagUtf8 => p + 3 <= Len(f)
    /\ p + 1 + PayloadWidth(f[p + 1], p) <= Len(f)

\* the text bytes of the Utf8 entry whose tag byte is at p
Utf8TextAt(p) == SubSeq(f, p + 4, p + 3 + BE16At(f, p + 1))

ProducesVariant(p) ==
    /\ result.r.status = "Ok"
    /\ result.r.value.kind = KindOfTag(f[p + 1])
    /\ position = p + 1 + PayloadWidth(f[p + 1], p)
    /\ pc = "constant_pool"
    /\ constant_pool[Len(constant_pool)] = result.r.value

FailsOnTag(p) ==
    /\ result.r.status = "Err"
    /\ result.r.value = UnexpectedTag
    /\ position = p + 1
    /\ pc = "failed"

\* C10 as stated: for each valid tag byte the parse produces the matching
\* variant and advances by 1 + the payload width of the tag (2 + length for
\* Utf8); for any other tag byte it fails with the malformed-tag error having
\* consumed only the tag byte.
C10_AsStated ==
    ConstantStep =>
        /\ HoldsConstant(result.from) => ProducesVariant(result.from)
        /\ f[result.from + 1] \notin ValidTags => FailsOnTag(result.from)

\* C10 as amended: the same, except that a Utf8 entry produces its variant
\* only when its bytes are valid UTF-8 (the variant then holds exactly those
\* bytes as text); when they are not, the parse panics and produces nothing.
C10_TagsAndWidths ==
    ConstantStep =>
        LET p == result.from
            notText == f[p + 1] = TagUtf8 /\ ~IsValidUtf8(Utf8TextAt(p))
        IN  /\ (HoldsConstant(p) /\ ~notText) => ProducesVariant(p)
            /\ (HoldsConstant(p) /\ f[p + 1] = TagUtf8 /\ ~notText)
                  => result.r.value.value = Utf8TextAt(p)
            /\ (HoldsConstant(p) /\ notText)
                  => ( /\ result.r.status = "Panic"
                       /\ result.r.value = "Could not parse Utf-8"
                       /\ pc = "panicked" )
            /\ f[p + 1] \notin ValidTags => FailsOnTag(p)

\* a Utf8 constant of one two-byte character was parsed after another constant
C10_Witness ==
    /\ ConstantStep
    /\ Len(constant_pool) = 2
    /\ result.r.status = "Ok"
    /\ result.r.value.kind = "Utf8"
    /\ result.r.value.value = <<195, 169>>
    /\ position = result.from + 5

-----------------------------------------------------------------------------
(* Bytecode interpreter: src/src/interpreter.rs, run_main *)

getstatic == 178

invokevirtual == 182

ldc == 18

KnownOpcodes == {getstatic, ldc, invokevirtual}

\* "java/io/PrintStream"
Text_PrintStream ==
    <<106, 97, 118, 97, 47, 105, 111, 47, 80, 114, 105, 110, 116, 83, 116, 114, 101, 97, 109>>

\* "out"
Text_out == <<111, 117, 116>>

\* "Ljava/io/PrintStream;"
Text_PrintStreamDesc ==
    <<76, 106, 97, 118, 97, 47, 105, 111, 47, 80, 114, 105, 110, 116, 83, 116, 114, 101, 97, 109, 59>>

\* "println"
Text_println == <<112, 114, 105, 110, 116, 108, 110>>

\* "(Ljava/lang/String;)V"
Text_printlnDesc ==
    <<40, 76, 106, 97, 118, 97, 47, 108, 97, 110, 103, 47, 83, 116, 114, 105, 110, 103, 59, 41, 86>>

\* "Hello, World!"
Text_HelloWorld == <<72, 101, 108, 108, 111, 44, 32, 87, 111, 114, 108, 100, 33>>

\* "print"
Text_print == <<112, 114, 105, 110, 116>>

\* "java/lang/System"
Text_System ==
    <<106, 97, 118, 97, 47, 108, 97, 110, 103, 47, 83, 121, 115, 116, 101, 109>>

\* enum OperandStackEntry (Int and Float are never pushed by run_main)
ClassInstance(class_name) == [kind |-> "ClassInstance", class_name |-> class_name]

StringEntry(s) == [kind |-> "String", value |-> s]

\* panic messages of run_main
UnimplementedOpcode == "not yet implemented: Instruction is not yet implemented"

ExpectedFieldref == "Expected field ref to be of type Fieldref"

UnexpectedConstant == "Unexpected constant type"

ExpectedString == "Expected operand stack to contain string"

UnwrapNone == "called Option::unwrap() on a None value"

\* outcome of one dispatched instruction: the cursor, the stack and the lines
\* printed; note carries the triple invokevirtual resolved
Done(p, stack, out, note) ==
    [status |-> "Ok", value |-> "", pos |-> p, stack |-> stack, out |-> out, note |-> note]

Crash(why, p, stack, note) ==
    [status |-> "Panic", value |-> why, pos |-> p, stack |-> stack, out |-> <<>>, note |-> note]

\* Vec::pop: the vector without its last element and the Option popped
Pop(stack) ==
    IF stack = <<>> THEN [rest |-> <<>>, some |-> FALSE]
    ELSE [rest |-> SubSeq(stack, 1, Len(stack) - 1), some |-> TRUE, elem |-> stack[Len(stack)]]

\* `len - 1` on usize, for a build without overflow checks
LenMinusOne(len) == IF len = 0 THEN UsizeHuge ELSE len - 1

\* while (byte_code.position() as usize) < len - 1
LoopCondition(pos, len) == pos < LenMinusOne(len)

\* the native binding invokevirtual knows
IsPrintln(field_class, name_and_type) ==
    /\ field_class = Text_PrintStream
    /\ name_and_type[1] = Text_println
    /\ name_and_type[2] = Text_printlnDesc

\* the OpCodeType::getstatic arm; p is the cursor after the opcode byte
ExecGetstatic(pool, code, p, stack) ==
    LET field_ref_index == parse_u2(code, p)
        q               == field_ref_index.pos
        field_ref       == get_value(pool, field_ref_index.value)
    IN  IF field_ref.status = "Panic" THEN Crash(field_ref.value, q, stack, <<>>)
        ELSE IF field_ref.value.kind # "Fieldref" THEN Crash(ExpectedFieldref, q, stack, <<>>)
        ELSE LET field_class ==
                     Expect(get_class_name_from_index(pool, field_ref.value.class_index),
                            "Expected field to have valid class index")
                 name_and_type ==
                     Expect(get_name_and_type(pool, field_ref.value.name_and_type_index),
                            "Expected field to have valid name_and_type index")
             IN  IF field_class.status = "Panic" THEN Crash(field_class.value, q, stack, <<>>)
                 ELSE IF name_and_type.status = "Panic"
                      THEN Crash(name_and_type.value, q, stack, <<>>)
                 ELSE Done(q, Append(stack, ClassInstance(name_and_type.value[2])), <<>>, <<>>)

\* the OpCodeType::ldc arm
ExecLdc(pool, code, p, stack) ==
    LET constant_index == parse_u1(code, p)
        q              == constant_index.pos
        constant       == get_value(pool, constant_index.value)
    IN  IF constant.status = "Panic" THEN Crash(constant.value, q, stack, <<>>)
        ELSE IF constant.value.kind # "String" THEN Crash(UnexpectedConstant, q, stack, <<>>)
        ELSE LET text == Expect(get_utf8_from_index(pool, constant.value.string_index),
                                "Expected string_index to be utf-8")
             IN  IF text.status = "Panic" THEN Crash(text.value, q, stack, <<>>)
                 ELSE Done(q, Append(stack, StringEntry(text.value)), <<>>, <<>>)

\* println that pops its argument and leaves the receiver on the stack
ExecPrintlnKeepsReceiver(q, stack, triple) ==
    LET first == Pop(stack)
    IN  IF ~first.some THEN Crash(UnwrapNone, q, stack, triple)
        ELSE IF first.elem.kind # "String" THEN Crash(ExpectedString, q, first.rest, triple)
        ELSE Done(q, first.rest, <<first.elem.value>>, triple)

\* the body of `if field_class == .. && name == .. && descriptor == ..`
ExecPrintln(q, stack, triple) ==
    LET first  == Pop(stack)
        second == Pop(first.rest)
    IN  IF ~first.some THEN Crash(UnwrapNone, q, stack, triple)
        ELSE IF first.elem.kind # "String" THEN Crash(ExpectedString, q, first.rest, triple)
        ELSE Done(q, second.rest, <<first.elem.value>>, triple)

\* the OpCodeType::invokevirtual arm
ExecInvokevirtual(pool, code, p, stack) ==
    LET method_index == parse_u2(code, p)
        q            == method_index.pos
        method_ref   == get_value(pool, method_index.value)
    IN  IF method_ref.status = "Panic" THEN Crash(method_ref.value, q, stack, <<>>)
        ELSE IF method_ref.value.kind # "Methodref" THEN Crash(ExpectedFieldref, q, stack, <<>>)
        ELSE LET field_class ==
                     Expect(get_class_name_from_index(pool, method_ref.value.class_index),
                            "Expected field to have valid class index")
                 name_and_type ==
                     Expect(get_name_and_type(pool, method_ref.value.name_and_type_index),
                            "Expected field to have valid name_and_type index")
             IN  IF field_class.status = "Panic" THEN Crash(field_class.value, q, stack, <<>>)
                 ELSE IF name_and_type.status = "Panic"
                      THEN Crash(name_and_type.value, q, stack, <<>>)
                 ELSE LET triple == <<field_class.value, name_and_type.value[1],
                                      name_and_type.value[2]>>
                      IN  IF IsPrintln(field_class.value, name_and_type.value)
                          THEN ExecPrintln(q, stack, triple)
                          ELSE Done(q, stack, <<>>, triple)

\* the `_ => todo!(..)` arm
ExecOther(p, stack) == Crash(UnimplementedOpcode, p, stack, <<>>)

-----------------------------------------------------------------------------
(* run_main as a state machine: one action per way around the loop *)

\* most chunks (instructions or stray bytes) in an instruction stream tried
MaxChunks == 4

\* The pool of the programs tried. 6 is the Fieldref and 10 the Methodref of
\* the hello-world program, 12 its String; 15, 18 and 20 are Methodrefs that
\* differ from the println binding in name, owning class and descriptor.
InterpPool ==
    << Utf8(Text_PrintStream),       \* 1
       Class(1),                     \* 2
       Utf8(Text_out),               \* 3
       Utf8(Text_PrintStreamDesc),   \* 4
       NameAndType(3, 4),            \* 5
       Fieldref(2, 5),               \* 6
       Utf8(Text_println),           \* 7
       Utf8(Text_printlnDesc),       \* 8
       NameAndType(7, 8),            \* 9
       Methodref(2, 9),              \* 10
       Utf8(Text_HelloWorld),        \* 11
       String(11),                   \* 12
       Utf8(Text_print),             \* 13
       NameAndType(13, 8),           \* 14
       Methodref(2, 14),             \* 15
       Utf8(Text_System),            \* 16
       Class(16),                    \* 17
       Methodref(17, 9),             \* 18
       NameAndType(7, 4),            \* 19
       Methodref(2, 19),             \* 20
       Integer(7) >>                 \* 21

\* instructions over that pool, and stray bytes: 177 is the JVM's `return`,
\* 0 its `nop`; neither is an opcode run_main knows
ChunkSample ==
    { <<getstatic, 0, 6>>, <<ldc, 12>>, <<invokevirtual, 0, 10>>,
      <<invokevirtual, 0, 15>>, <<invokevirtual, 0, 18>>, <<invokevirtual, 0, 20>>,
      <<ldc, 21>>, <<177>>, <<0>> }

CodeSample == { Concat(cs) : cs \in UNION { [1..n -> ChunkSample] : n \in 0..MaxChunks } }

\* the state after run_main has taken the code out of the entry point's Code
\* attribute and created the cursor and the empty operand stack (lines 29-42)
InterpInit ==
    /\ f = <<>>
    /\ position = 0
    /\ constant_pool = InterpPool
    /\ byte_code \in CodeSample
    /\ operand_stack = <<>>
    /\ stdout = <<>>
    /\ dispatched = <<>>
    /\ class_file = IdleClassFile
    /\ result = NoResult
    /\ overflow_checks \in BOOLEAN
    /\ pc = "running"

len == Len(byte_code)

\* `len - 1` panics: the stream is empty and the build checks overflow
LenUnderflows == len = 0 /\ overflow_checks

LoopContinues == pc = "running" /\ ~LenUnderflows /\ LoopCondition(position, len)

\* let instruction = byte_code.parse_u1()?
instruction == parse_u1(byte_code, position)

Dispatch(name, r) ==
    /\ dispatched' = Append(dispatched, <<position, name>>)
    /\ result' = [op |-> name, at |-> position, r |-> r]
    /\ position' = r.pos
    /\ operand_stack' = r.stack
    /\ stdout' = stdout \o r.out
    /\ pc' = IF r.status = "Ok" THEN "running" ELSE "panicked"
    /\ UNCHANGED <<f, constant_pool, byte_code, class_file, overflow_checks>>

LenUnderflow ==
    /\ pc = "running"
    /\ LenUnderflows
    /\ pc' = "panicked"
    /\ result' = [op |-> "loop", at |-> position,
                  r |-> Crash(SubtractOverflow, position, operand_stack, <<>>)]
    /\ UNCHANGED <<f, position, constant_pool, interpVars, class_file, overflow_checks>>

\* the loop condition is false: Ok(())
Return ==
    /\ pc = "running"
    /\ ~LenUnderflows
    /\ ~LoopCondition(position, len)
    /\ pc' = "returned"
    /\ result' = [op |-> "return", at |-> position,
                  r |-> Done(position, operand_stack, <<>>, <<>>)]
    /\ UNCHANGED <<f, position, constant_pool, interpVars, class_file, overflow_checks>>

Getstatic ==
    /\ LoopContinues
    /\ instruction.value = getstatic
    /\ Dispatch("getstatic",
                ExecGetstatic(constant_pool, byte_code, instruction.pos, operand_stack))

Ldc ==
    /\ LoopContinues
    /\ instruction.value = ldc
    /\ Dispatch("ldc", ExecLdc(constant_pool, byte_code, instruction.pos, operand_stack))

Invokevirtual ==
    /\ LoopContinues
    /\ instruction.value = invokevirtual
    /\ Dispatch("invokevirtual",
                ExecInvokevirtual(constant_pool, byte_code, instruction.pos, operand_stack))

Unimplemented ==
    /\ LoopContinues
    /\ instruction.value \notin KnownOpcodes
    /\ Dispatch("other", ExecOther(instruction.pos, operand_stack))

Next == LenUnderflow \/ Return \/ Getstatic \/ Ldc \/ Invokevirtual \/ Unimplemented

Spec == InterpInit /\ [][Next]_vars

-----------------------------------------------------------------------------
(* Claims about run_main *)

\* index i holds a Fieldref (java/io/PrintStream, out, Ljava/io/PrintStream;)
IsOutFieldref(i) ==
    /\ InRange(i)
    /\ constant_pool[i].kind = "Fieldref"
    /\ get_class_name_from_index(constant_pool, constant_pool[i].class_index)
          = Found(Text_PrintStream)
    /\ get_name_and_type(constant_pool, constant_pool[i].name_and_type_index)
          = Found(<<Text_out, Text_PrintStreamDesc>>)

\* index i holds a Methodref (java/io/PrintStream, println, (Ljava/lang/String;)V)
IsPrintlnMethodref(i) ==
    /\ InRange(i)
    /\ constant_pool[i].kind = "Methodref"
    /\ get_class_name_from_index(constant_pool, constant_pool[i].class_index)
          = Found(Text_PrintStream)
    /\ get_name_and_type(constant_pool, constant_pool[i].name_and_type_index)
          = Found(<<Text_println, Text_printlnDesc>>)

\* index i holds a String pointing at Utf8 "Hello, World!"
IsHelloString(i) ==
    /\ InRange(i)
    /\ constant_pool[i].kind = "String"
    /\ get_utf8_from_index(constant_pool, constant_pool[i].string_index)
          = Found(Text_HelloWorld)

\* the code is exactly getstatic <fieldref>; ldc <string>; invokevirtual <methodref>
IsHelloProgram ==
    /\ Len(byte_code) = 8
    /\ byte_code[1] = getstatic
    /\ IsOutFieldref(byte_code[2] * 256 + byte_code[3])
    /\ byte_code[4] = ldc
    /\ IsHelloString(byte_code[5])
    /\ byte_code[6] = invokevirtual
    /\ IsPrintlnMethodref(byte_code[7] * 256 + byte_code[8])

HelloDispatches == << <<0, "getstatic">>, <<3, "ldc">>, <<5, "invokevirtual">> >>

IsPrefix(s, u) == Len(s) <= Len(u) /\ s = SubSeq(u, 1, Len(s))

\* C1: on the hello-world program run_main dispatches getstatic, ldc and
\* invokevirtual in that order, prints exactly the one line "Hello, World!",
\* ends with an empty operand stack and returns normally (it never panics,
\* and prints nothing before the invokevirtual).
C1_HelloWorld ==
    (pc \in {"running", "returned", "panicked"} /\ IsHelloProgram) =>
        /\ pc # "panicked"
        /\ IsPrefix(dispatched, HelloDispatches)
        /\ (pc = "running" /\ Len(dispatched) < 3) =>
              /\ stdout = <<>>
              /\ LoopCondition(position, len)
        /\ (pc = "running" /\ Len(dispatched) = 3) =>
              /\ stdout = <<Text_HelloWorld>>
              /\ operand_stack = <<>>
              /\ ~LoopCondition(position, len)
        /\ pc = "returned" =>
              /\ dispatched = HelloDispatches
              /\ stdout = <<Text_HelloWorld>>
              /\ operand_stack = <<>>

\* run_main has returned from the hello-world program
C1_Witness == IsHelloProgram /\ pc = "returned" /\ Len(stdout) = 1

\* C4: wherever the interpreter would fetch an opcode, a byte that is not
\* getstatic, ldc or invokevirtual makes run_main fail with the
\* unimplemented-opcode failure at that position, with nothing printed beyond
\* what the preceding instructions printed; also when that byte is the last
\* byte of the stream.
C4_UnknownOpcodeFails ==
    [][ ( /\ pc = "running"
          /\ position < Len(byte_code)
          /\ byte_code[position + 1] \notin KnownOpcodes )
        => ( /\ pc' = "panicked"
             /\ result'.r.value = UnimplementedOpcode
             /\ result'.at = position
             /\ stdout' = stdout ) ]_vars

\* the (owning class, name, descriptor) of the one native binding
PrintlnBinding == <<Text_PrintStream, Text_println, Text_printlnDesc>>

\* C5: when invokevirtual resolves a Methodref whose triple differs from
\* (java/io/PrintStream, println, (Ljava/lang/String;)V) in any component,
\* the interpreter fails: it does not go on to the next instruction.
C5_OtherMethodFails ==
    ( /\ pc \in {"running", "returned", "panicked"}
      /\ Len(dispatched) > 0
      /\ result.op = "invokevirtual"
      /\ result.r.note # <<>>
      /\ result.r.note # PrintlnBinding )
    => (pc = "panicked" /\ result.r.status = "Panic")

\* C6: run_main returns normally only with the cursor at the end of the
\* instruction stream, every byte consumed as an opcode or an operand.
C6_ReturnsOnlyAtEnd ==
    pc = "returned" => position = Len(byte_code)

-----------------------------------------------------------------------------
(* AttributeInfo::parse run on encodings of Code attributes *)

\* most instruction bytes, exception rows and nested attributes of a Code
\* attribute that is built
MaxCodeLen == 2
MaxExceptionRows == 2
MaxNested == 2

\* the constant pool BodyPool encodes
CodePool ==
    << Utf8(Text_Code), Utf8(Text_ConstantValue), Utf8(Text_SourceFile),
       Utf8(Text_LineNumberTable), Utf8(Text_Foo), Class(5) >>

\* struct AttributeInfo
AttributeInfo(attribute_name_index, attribute_name, attribute) ==
    [attribute_name_index |-> attribute_name_index,
     attribute_name       |-> attribute_name,
     attribute            |-> attribute]

\* AttributeKind::Code
CodeKind(max_stack, max_locals, code, exception_table, attributes) ==
    [kind |-> "Code", max_stack |-> max_stack, max_locals |-> max_locals, code |-> code,
     exception_table |-> exception_table, attributes |-> attributes]

CodeByteSample == {177, 255}

ExceptionSample ==
    { [start_pc |-> 0, end_pc |-> 4, handler_pc |-> 7, catch_type |-> 6],
      [start_pc |-> 258, end_pc |-> 65535, handler_pc |-> 3, catch_type |-> 0] }

\* nested attributes: an unrecognised one, a LineNumberTable of two rows, a
\* ConstantValue and a Code attribute with a table row of its own
NestedSample ==
    { AttributeInfo(5, Text_Foo, [kind |-> "Other", bytes |-> <<9, 0, 8>>]),
      AttributeInfo(4, Text_LineNumberTable,
                    [kind |-> "LineNumberTable",
                     line_number_table |-> << [start_pc |-> 0, line_number |-> 7],
                                              [start_pc |-> 4, line_number |-> 300] >>]),
      AttributeInfo(2, Text_ConstantValue,
                    [kind |-> "ConstantValue", constant_value_index |-> 6]),
      AttributeInfo(1, Text_Code,
                    CodeKind(1, 0, <<177>>,
                             << [start_pc |-> 1, end_pc |-> 2, handler_pc |-> 3,
                                 catch_type |-> 4] >>,
                             <<>>)) }

\* the Code attributes that are built: <<max_stack, max_locals>>, the code,
\* the exception table and the nested attributes
CodeBuilds ==
    { AttributeInfo(1, Text_Code, CodeKind(x[1][1], x[1][2], x[2], x[3], x[4])) :
        x \in {<<2, 256>>, <<65535, 1>>} \X SeqsUpTo(CodeByteSample, MaxCodeLen)
                \X SeqsUpTo(ExceptionSample, MaxExceptionRows)
                \X SeqsUpTo(NestedSample, MaxNested) }

\* the class-file encoding of an exception table row
EncodeException(e) ==
    U2Bytes(e.start_pc) \o U2Bytes(e.end_pc) \o U2Bytes(e.handler_pc) \o U2Bytes(e.catch_type)

\* the class-file encoding of an attribute, attribute_length being the size
\* of the encoded payload
RECURSIVE EncodeAttribute(_)
EncodeAttribute(a) ==
    LET k == a.attribute
        payload ==
            CASE k.kind = "Other" -> k.bytes
              [] k.kind = "ConstantValue" -> U2Bytes(k.constant_value_index)
              [] k.kind = "LineNumberTable" ->
                    U2Bytes(Len(k.line_number_table)) \o
                    Concat([i \in 1..Len(k.line_number_table) |->
                              U2Bytes(k.line_number_table[i].start_pc) \o
                              U2Bytes(k.line_number_table[i].line_number)])
              [] k.kind = "Code" ->
                    U2Bytes(k.max_stack) \o U2Bytes(k.max_locals) \o
                    U4Bytes(Len(k.code)) \o k.code \o
                    U2Bytes(Len(k.exception_table)) \o
                    Concat([i \in 1..Len(k.exception_table) |->
                              EncodeException(k.exception_table[i])]) \o
                    U2Bytes(Len(k.attributes)) \o
                    Concat([i \in 1..Len(k.attributes) |-> EncodeAttribute(k.attributes[i])])
    IN  U2Bytes(a.attribute_name_index) \o U4Bytes(Len(payload)) \o payload

\* a Code attribute has been built and encoded into the stream f
CodeInit ==
    /\ \E built \in CodeBuilds :
          /\ f = EncodeAttribute(built)
          /\ result = [op |-> "encode", built |-> built]
    /\ position = 0
    /\ constant_pool = CodePool
    /\ byte_code = <<>>
    /\ operand_stack = <<>>
    /\ stdout = <<>>
    /\ dispatched = <<>>
    /\ class_file = IdleClassFile
    /\ overflow_checks \in BOOLEAN
    /\ pc = "code_encoded"

\* AttributeInfo::parse(&constant_pool, f)
ParseCodeAttribute ==
    /\ pc = "code_encoded"
    /\ LET a == AttributeInfoParse(constant_pool, f, position)
       IN  /\ result' = [op |-> "attribute", built |-> result.built, from |-> position,
                         r |-> a]
           /\ position' = a.pos
    /\ pc' = "code_parsed"
    /\ UNCHANGED <<f, constant_pool, interpVars, class_file, overflow_checks>>

CodeNext == ParseCodeAttribute

SpecCode == CodeInit /\ [][CodeNext]_vars

\* C11: parsing the encoding of a Code attribute built from max_stack M,
\* max_locals L, K instruction bytes, E exception rows and A nested
\* attributes yields a Code variant with the same M and L, the same K bytes,
\* the E rows in their order with their four fields unchanged, and the A
\* nested attributes in their order.
C11_CodeRoundTrip ==
    pc = "code_parsed" =>
        /\ result.r.status = "Ok"
        /\ position = Len(f)
        /\ LET got   == result.r.value.attribute
               built == result.built.attribute
           IN  /\ got.kind = "Code"
               /\ got.max_stack = built.max_stack
               /\ got.max_locals = built.max_locals
               /\ got.code = built.code
               /\ Len(got.exception_table) = Len(built.exception_table)
               /\ \A i \in 1..Len(built.exception_table) :
                     /\ got.exception_table[i].start_pc = built.exception_table[i].start_pc
                     /\ got.exception_table[i].end_pc = built.exception_table[i].end_pc
                     /\ got.exception_table[i].handler_pc
                           = built.exception_table[i].handler_pc
                     /\ got.exception_table[i].catch_type
                           = built.exception_table[i].catch_type
               /\ Len(got.attributes) = Len(built.attributes)
               /\ \A i \in 1..Len(built.attributes) :
                     /\ got.attributes[i].attribute_name = built.attributes[i].attribute_name
                     /\ got.attributes[i].attribute.kind = built.attributes[i].attribute.kind
                     /\ got.attributes[i] = built.attributes[i]

\* a Code attribute with two instruction bytes, two different exception rows
\* and two different nested attributes has been parsed
C11_Witness ==
    /\ pc = "code_parsed"
    /\ result.r.status = "Ok"
    /\ Len(result.built.attribute.code) = 2
    /\ Len(result.built.attribute.exception_table) = 2
    /\ result.built.attribute.exception_table[1] # result.built.attribute.exception_table[2]
    /\ Len(result.built.attribute.attributes) = 2
    /\ result.built.attribute.attributes[1].attribute.kind = "Code"
    /\ result.built.attribute.attributes[2].attribute.kind = "LineNumberTable"

-----------------------------------------------------------------------------
(* The println binding of run_main, checked under Spec *)

\* the step is an invokevirtual that resolved the println binding
PrintlnStep ==
    /\ pc = "running"
    /\ Len(dispatched') = Len(dispatched) + 1
    /\ result'.op = "invokevirtual"
    /\ result'.r.note = PrintlnBinding

\* C13: whenever invokevirtual on the println binding emits a line, the
\* operand stack beforehand held a String on top with a class-instance
\* receiver directly beneath it, the line is that String and the stack
\* afterwards is two entries shorter; on a stack that is empty, has a
\* non-String on top, or holds only the String with no receiver beneath, the
\* instruction fails and emits nothing.
C13_PrintlnPopsArgumentAndReceiver ==
    [][ PrintlnStep =>
          LET n == Len(operand_stack)
          IN  /\ stdout' # stdout =>
                    /\ n >= 2
                    /\ operand_stack[n].kind = "String"
                    /\ operand_stack[n - 1].kind = "ClassInstance"
                    /\ stdout' = Append(stdout, operand_stack[n].value)
                    /\ operand_stack' = SubSeq(operand_stack, 1, n - 2)
              /\ ( \/ n = 0
                   \/ (n >= 1 /\ operand_stack[n].kind # "String")
                   \/ (n = 1 /\ operand_stack[1].kind = "String") )
                 => (pc' = "panicked" /\ stdout' = stdout) ]_vars

=============================================================================
